---- MODULE Spec2Model ----
(***************************************************************************)
(* Planner/Executor LangGraph workflow (LangGraph/src).                    *)
(*                                                                         *)
(* state.py   AgentState and its per-field reducers                        *)
(* nodes.py   _parse_plan, supervisor_node, planner_node, executor_node    *)
(* graph.py   the compiled graph: edges, conditional edge, MemorySaver     *)
(* agent.py   run_once: initial state, stream loop, returned final state   *)
(*                                                                         *)
(* Strings that the code inspects (generated text, plan steps, log         *)
(* entries, goals) are sequences of one-character strings, so that         *)
(* splitlines/strip/startswith/split/isdigit and the f-string of the log   *)
(* entry are computed the way the code computes them.                      *)
(***************************************************************************)
EXTENDS Integers, Sequences, FiniteSets, TLC

VARIABLES
    state,        \* the AgentState channel values of the thread
    node,         \* position of the run in the graph
    checkpoint,   \* MemorySaver contents for thread "planner_executor_run_1"
    final_state,  \* run_once's local final_state (<<>> is None)
    returned,     \* value returned by the last run_once call (<<>> is none)
    decisions,    \* Supervisor invocations of the current run
    exec_turns,   \* Executor invocations completed in the current run
    gen_calls,    \* llm.invoke calls of the current run
    gen_failed,   \* an llm.invoke call of the current run raised
    runs,         \* run_once calls made so far in this process
    goal          \* the user_goal argument of the current run_once call

vars == <<state, node, checkpoint, final_state, returned, decisions, exec_turns,
          gen_calls, gen_failed, runs, goal>>

---------------------------------------------------------------------------
(* Bounds *)

MaxRuns == 2
MaxDecisions == 8
MaxGenCalls == 6
MaxTextLen == 4
MaxUnitMsgs == 1
MaxUnitIdx == 3
MaxUnitCalls == 2

---------------------------------------------------------------------------
(* Characters and strings *)

Space == " "
NL == "\n"
Whitespace == {Space, "\t"}
Digits == {"0", "1", "2", "3", "4", "5", "6", "7", "8", "9"}
Alphabet == {Space, NL, "-", "*", "1", ".", "a"}

DigitOf(d) == CASE d = 0 -> "0" [] d = 1 -> "1" [] d = 2 -> "2" [] d = 3 -> "3"
                [] d = 4 -> "4" [] d = 5 -> "5" [] d = 6 -> "6" [] d = 7 -> "7"
                [] d = 8 -> "8" [] d = 9 -> "9"

RECURSIVE IntToStr(_)
IntToStr(n) == IF n < 10 THEN <<DigitOf(n)>>
               ELSE IntToStr(n \div 10) \o <<DigitOf(n % 10)>>

RECURSIVE LStrip(_)
LStrip(s) == IF s # <<>> /\ Head(s) \in Whitespace THEN LStrip(Tail(s)) ELSE s

RECURSIVE RStrip(_)
RStrip(s) == IF s # <<>> /\ s[Len(s)] \in Whitespace
             THEN RStrip(SubSeq(s, 1, Len(s) - 1)) ELSE s

Strip(s) == RStrip(LStrip(s))

StartsWith(s, p) == Len(s) >= Len(p) /\ SubSeq(s, 1, Len(p)) = p

(* Index of the first occurrence of p in s, 0 when there is none. *)
Find(s, p) ==
    LET hits == {i \in 1..(Len(s) - Len(p) + 1) : SubSeq(s, i, i + Len(p) - 1) = p}
    IN IF hits = {} THEN 0 ELSE CHOOSE i \in hits : \A j \in hits : i <= j

IsDigit(s) == s # <<>> /\ \A i \in 1..Len(s) : s[i] \in Digits

RECURSIVE SplitLines(_)
SplitLines(t) ==
    IF t = <<>> THEN <<>>
    ELSE LET i == Find(t, <<NL>>)
         IN IF i = 0 THEN <<t>>
            ELSE <<SubSeq(t, 1, i - 1)>> \o SplitLines(SubSeq(t, i + 1, Len(t)))

---------------------------------------------------------------------------
(* nodes.py: _parse_plan *)

(* The bullet character U+2022 of the third prefix. *)
Bullet == "U+2022"

Prefixes == << <<"-", Space>>, <<"*", Space>>, <<Bullet, Space>> >>

RECURSIVE StripPrefixes(_, _)
StripPrefixes(line, k) ==
    IF k > Len(Prefixes) THEN line
    ELSE StripPrefixes(IF StartsWith(line, Prefixes[k])
                       THEN Strip(SubSeq(line, Len(Prefixes[k]) + 1, Len(line)))
                       ELSE line,
                       k + 1)

StripNumber(line) ==
    LET i == Find(line, <<".", Space>>)
    IN IF i > 0 /\ IsDigit(SubSeq(line, 1, i - 1))
       THEN Strip(SubSeq(line, i + 2, Len(line)))
       ELSE line

ParseLine(raw_line) == StripNumber(StripPrefixes(Strip(raw_line), 1))

RECURSIVE ParseLines(_)
ParseLines(lines) ==
    IF lines = <<>> THEN <<>>
    ELSE IF Strip(Head(lines)) = <<>> THEN ParseLines(Tail(lines))
    ELSE <<ParseLine(Head(lines))>> \o ParseLines(Tail(lines))

_parse_plan(text) == ParseLines(SplitLines(text))

---------------------------------------------------------------------------
(* state.py: AgentState, and the values the generation capability returns *)

NoneName == "<None>"

HumanMessage(content, name) == [content |-> content, name |-> name]

(* Truthiness of a str-or-None value, as tested by `not last_name`. *)
Truthy(name) == name \notin {NoneName, ""}

Goals == {<<>>, <<"g">>}

DefaultGoal == <<"Set up a basic ML experiment tracking workflow.">>

FallbackPlan ==
    << <<"Clarify the goal and constraints.">>,
       <<"Draft a minimal implementation plan.">>,
       <<"Implement the plan in a step-by-step fashion.">>,
       <<"Verify that the goal has been achieved.">> >>

(* Texts the model returns to the Planner during a run. *)
GenTexts ==
    { <<>>,
      <<Space, NL, Space>>,
      <<"-", Space, "a">>,
      <<"1", ".", Space, "a", NL, "2", ".", Space, "b">>,
      <<"a", NL, NL, "*", Space, "-", Space, "b", NL, "3", ".", "c">> }

(* Texts the model returns to the Executor. *)
Explanations == { <<"D", "o", "n", "e", ".">> }

(* Channel values of a thread that has no checkpoint yet. *)
EmptyChannels ==
    [messages |-> <<>>, user_goal |-> <<>>, plan |-> <<>>,
     current_step_index |-> 0, execution_log |-> <<>>,
     next_step |-> "", status |-> ""]

(* Variant of add_messages: no reducer, the update's list replaces the old. *)
add_messages_replace(left, right) == right

(* The add_messages reducer: messages created without an id are appended. *)
add_messages(left, right) == left \o right

(* Variant of Merge: the update replaces the state, absent fields are lost. *)
Merge_overwrite(s, update) ==
    [f \in DOMAIN s |-> IF f \in DOMAIN update THEN update[f] ELSE EmptyChannels[f]]

(* Variant of Merge: execution_log is given an appending reducer too. *)
Merge_append_log(s, update) ==
    [f \in DOMAIN s |->
        IF f \in DOMAIN update
        THEN IF f \in {"messages", "execution_log"} THEN s[f] \o update[f] ELSE update[f]
        ELSE s[f]]

(* Applying a node's partial update: messages goes through its reducer,   *)
(* every other field present in the update replaces the old value.         *)
Merge(s, update) ==
    [f \in DOMAIN s |->
        IF f \in DOMAIN update
        THEN IF f = "messages" THEN add_messages(s[f], update[f]) ELSE update[f]
        ELSE s[f]]

---------------------------------------------------------------------------
(* nodes.py: the three nodes, as functions from a state to a partial update *)

LastName(s) ==
    IF s.messages # <<>> THEN s.messages[Len(s.messages)].name ELSE NoneName

(* Variant of Route: the remaining-steps test is <= instead of <. *)
Route_le(s) ==
    LET last_name == LastName(s)
    IN IF ~Truthy(last_name) THEN "Planner"
       ELSE IF last_name = "Planner" THEN "Executor"
       ELSE IF last_name = "Executor"
            THEN IF s.current_step_index <= Len(s.plan) THEN "Executor" ELSE "FINISH"
       ELSE "FINISH"

Route(s) ==
    LET last_name == LastName(s)
        plan == s.plan
        current_index == s.current_step_index
    IN IF ~Truthy(last_name) THEN "Planner"
       ELSE IF last_name = "Planner" THEN "Executor"
       ELSE IF last_name = "Executor"
            THEN IF current_index < Len(plan) THEN "Executor" ELSE "FINISH"
       ELSE "FINISH"

(* Variant of supervisor_node: the update carries next_step only. *)
supervisor_node_no_status(s) == [next_step |-> Route(s)]

supervisor_node(s) == [next_step |-> Route(s), status |-> "supervising"]

ResolveGoal(s) ==
    IF s.user_goal # <<>> THEN s.user_goal
    ELSE IF s.messages # <<>> THEN s.messages[1].content
    ELSE DefaultGoal

(* Variant of PlanSteps: no fallback plan. *)
PlanSteps_no_fallback(raw_plan) == _parse_plan(raw_plan)

PlanSteps(raw_plan) ==
    LET steps == _parse_plan(raw_plan)
    IN IF steps = <<>> THEN FallbackPlan ELSE steps

(* Variant of planner_node: the message is tagged in lower case. *)
planner_node_lowercase_tag(s, raw_plan) ==
    [messages |-> <<HumanMessage(raw_plan, "planner")>>,
     plan |-> PlanSteps(raw_plan),
     current_step_index |-> 0,
     status |-> "planning_done",
     user_goal |-> ResolveGoal(s)]

planner_node(s, raw_plan) ==
    [messages |-> <<HumanMessage(raw_plan, "Planner")>>,
     plan |-> PlanSteps(raw_plan),
     current_step_index |-> 0,
     status |-> "planning_done",
     user_goal |-> ResolveGoal(s)]

NothingToExecute(s) ==
    s.plan = <<>> \/ s.current_step_index >= Len(s.plan)

(* Variant of LogEntry: the step number is the zero-based index. *)
LogEntry_zero_based(current_index, step_text, explanation) ==
    <<"S", "t", "e", "p", Space>> \o IntToStr(current_index) \o <<":", Space>>
        \o step_text \o <<NL>> \o explanation

LogEntry(current_index, step_text, explanation) ==
    <<"S", "t", "e", "p", Space>> \o IntToStr(current_index + 1) \o <<":", Space>>
        \o step_text \o <<NL>> \o explanation

(* Variant of executor_node: the executed step is removed from the plan. *)
executor_node_pop(s, explanation) ==
    IF NothingToExecute(s)
    THEN [status |-> "nothing_to_execute"]
    ELSE [messages |-> <<HumanMessage(explanation, "Executor")>>,
          plan |-> Tail(s.plan),
          execution_log |->
              Append(s.execution_log,
                     LogEntry(s.current_step_index, s.plan[s.current_step_index + 1],
                              explanation)),
          current_step_index |-> s.current_step_index + 1,
          status |-> "executing"]

(* Variant of executor_node: the index advances by 2. *)
executor_node_skip(s, explanation) ==
    IF NothingToExecute(s)
    THEN [status |-> "nothing_to_execute"]
    ELSE [messages |-> <<HumanMessage(explanation, "Executor")>>,
          execution_log |->
              Append(s.execution_log,
                     LogEntry(s.current_step_index, s.plan[s.current_step_index + 1],
                              explanation)),
          current_step_index |-> s.current_step_index + 2,
          status |-> "executing"]

(* Variant of executor_node: the index wraps around at the end of the plan. *)
executor_node_wrap(s, explanation) ==
    IF NothingToExecute(s)
    THEN [status |-> "nothing_to_execute"]
    ELSE [messages |-> <<HumanMessage(explanation, "Executor")>>,
          execution_log |->
              Append(s.execution_log,
                     LogEntry(s.current_step_index, s.plan[s.current_step_index + 1],
                              explanation)),
          current_step_index |-> (s.current_step_index + 1) % Len(s.plan),
          status |-> "executing"]

(* Variant of executor_node: the guard's return also posts a message. *)
executor_node_noop_msg(s, explanation) ==
    IF NothingToExecute(s)
    THEN [messages |-> <<HumanMessage(<<>>, "Executor")>>,
          status |-> "nothing_to_execute"]
    ELSE [messages |-> <<HumanMessage(explanation, "Executor")>>,
          execution_log |->
              Append(s.execution_log,
                     LogEntry(s.current_step_index, s.plan[s.current_step_index + 1],
                              explanation)),
          current_step_index |-> s.current_step_index + 1,
          status |-> "executing"]

executor_node(s, explanation) ==
    IF NothingToExecute(s)
    THEN [status |-> "nothing_to_execute"]
    ELSE LET current_index == s.current_step_index
             step_text == s.plan[current_index + 1]
         IN [messages |-> <<HumanMessage(explanation, "Executor")>>,
             execution_log |->
                 Append(s.execution_log, LogEntry(current_index, step_text, explanation)),
             current_step_index |-> current_index + 1,
             status |-> "executing"]

(* llm.invoke calls made by one executor_node invocation. *)
ExecutorGenCalls(s) == IF NothingToExecute(s) THEN 0 ELSE 1

---------------------------------------------------------------------------
(* graph.py: edges of the compiled graph *)

(* The conditional edge out of Supervisor. *)
ConditionalEdge(next_step) ==
    CASE next_step = "Planner" -> "Planner"
      [] next_step = "Executor" -> "Executor"
      [] next_step = "FINISH" -> "END"

(* No retry policy and no handler: an exception raised in a node leaves    *)
(* graph.stream and run_once; the thread stays where the node failed.      *)
(* Variant of OnNodeError: the failed node is run again. *)
OnNodeError_retry(n) == n

OnNodeError(n) == "FAILED"

---------------------------------------------------------------------------
(* agent.py: run_once, driving the graph one superstep at a time *)

initial_state(user_goal) ==
    [messages |-> <<HumanMessage(user_goal, NoneName)>>,
     user_goal |-> user_goal,
     plan |-> <<>>,
     current_step_index |-> 0,
     execution_log |-> <<>>,
     next_step |-> "",
     status |-> "created"]

(* The channel values graph.stream starts from: the thread's checkpoint    *)
(* with the input applied to it as an update.                              *)
StreamInput(saved, input) ==
    Merge(IF saved = <<>> THEN EmptyChannels ELSE saved[1], input)

Init ==
    /\ state = EmptyChannels
    /\ node = "idle"
    /\ checkpoint = <<>>
    /\ final_state = <<>>
    /\ returned = <<>>
    /\ decisions = 0
    /\ exec_turns = 0
    /\ gen_calls = 0
    /\ gen_failed = FALSE
    /\ runs = 0
    /\ goal = <<>>

(* Every superstep writes a checkpoint and streams the values. *)
Commit(s) ==
    /\ state' = s
    /\ checkpoint' = <<s>>
    /\ final_state' = <<s>>

RunOnce(user_goal) ==
    /\ node \in {"idle", "END", "FAILED"}
    /\ runs < MaxRuns
    /\ runs' = runs + 1
    /\ Commit(StreamInput(checkpoint, initial_state(user_goal)))
    /\ node' = "Supervisor"
    /\ returned' = <<>>
    /\ decisions' = 0
    /\ exec_turns' = 0
    /\ gen_calls' = 0
    /\ gen_failed' = FALSE
    /\ goal' = user_goal

SupervisorStep ==
    /\ node = "Supervisor"
    /\ decisions < MaxDecisions
    /\ LET s == Merge(state, supervisor_node(state))
       IN /\ Commit(s)
          /\ node' = ConditionalEdge(s.next_step)
          /\ returned' = IF node' = "END" THEN <<s>> ELSE returned
    /\ decisions' = decisions + 1
    /\ UNCHANGED <<exec_turns, gen_calls, gen_failed, runs, goal>>

PlannerStep ==
    /\ node = "Planner"
    /\ gen_calls < MaxGenCalls
    /\ \E raw_plan \in GenTexts :
          Commit(Merge(state, planner_node(state, raw_plan)))
    /\ node' = "Supervisor"
    /\ gen_calls' = gen_calls + 1
    /\ UNCHANGED <<returned, decisions, exec_turns, gen_failed, runs, goal>>

ExecutorStep ==
    /\ node = "Executor"
    /\ gen_calls + ExecutorGenCalls(state) <= MaxGenCalls
    /\ \E explanation \in Explanations :
          Commit(Merge(state, executor_node(state, explanation)))
    /\ node' = "Supervisor"
    /\ exec_turns' = exec_turns + 1
    /\ gen_calls' = gen_calls + ExecutorGenCalls(state)
    /\ UNCHANGED <<returned, decisions, gen_failed, runs, goal>>

(* llm.invoke raises in planner_node. *)
PlannerFail ==
    /\ node = "Planner"
    /\ gen_calls < MaxGenCalls
    /\ node' = OnNodeError(node)
    /\ gen_calls' = gen_calls + 1
    /\ gen_failed' = TRUE
    /\ UNCHANGED <<state, checkpoint, final_state, returned, decisions, exec_turns, runs, goal>>

(* llm.invoke raises in executor_node. *)
ExecutorFail ==
    /\ node = "Executor"
    /\ ~NothingToExecute(state)
    /\ gen_calls < MaxGenCalls
    /\ node' = OnNodeError(node)
    /\ gen_calls' = gen_calls + 1
    /\ gen_failed' = TRUE
    /\ UNCHANGED <<state, checkpoint, final_state, returned, decisions, exec_turns, runs, goal>>

StartRun == \E user_goal \in Goals : RunOnce(user_goal)

Next ==
    \/ StartRun
    \/ SupervisorStep
    \/ PlannerStep
    \/ ExecutorStep
    \/ PlannerFail
    \/ ExecutorFail

Spec == Init /\ [][Next]_vars

(* Runs in which every llm.invoke call returns text. A run is one call of  *)
(* run_once: the for loop over graph.stream runs to the end once started.  *)
NextGenOk ==
    \/ StartRun
    \/ SupervisorStep
    \/ PlannerStep
    \/ ExecutorStep

SpecGenOk ==
    Init /\ [][NextGenOk]_vars /\ WF_vars(SupervisorStep \/ PlannerStep \/ ExecutorStep)

---------------------------------------------------------------------------
(* The nodes called directly on arbitrary states, in any order *)

SeqsUpTo(S, n) == UNION {[1..k -> S] : k \in 0..n}

UnitNames == {NoneName, "", "Planner", "Executor", "Critic"}

UnitNodes == {"Supervisor", "Planner", "Executor"}

UnitStates ==
    [messages : SeqsUpTo({HumanMessage(<<"m">>, n) : n \in UnitNames}, MaxUnitMsgs),
     user_goal : Goals,
     plan : {<<>>, << <<"a">> >>, << <<"a">>, <<"b">> >>},
     current_step_index : 0..MaxUnitIdx,
     execution_log : {<<>>, << <<"e">> >>},
     next_step : {""},
     status : {"created", "executing"}]

InitUnit ==
    /\ state \in UnitStates
    /\ node \in UnitNodes
    /\ checkpoint = <<>>
    /\ final_state = <<>>
    /\ returned = <<>>
    /\ decisions = 0
    /\ exec_turns = 0
    /\ gen_calls = 0
    /\ gen_failed = FALSE
    /\ runs = 0
    /\ goal = <<>>

(* Node invocations made so far. *)
UnitCalls == decisions + exec_turns + gen_calls

UnitSupervisor ==
    /\ node = "Supervisor"
    /\ UnitCalls < MaxUnitCalls
    /\ state' = Merge(state, supervisor_node(state))
    /\ decisions' = decisions + 1
    /\ node' \in UnitNodes
    /\ UNCHANGED <<checkpoint, final_state, returned, exec_turns, gen_calls, gen_failed, runs, goal>>

UnitPlanner ==
    /\ node = "Planner"
    /\ UnitCalls < MaxUnitCalls
    /\ \E raw_plan \in GenTexts : state' = Merge(state, planner_node(state, raw_plan))
    /\ gen_calls' = gen_calls + 1
    /\ node' \in UnitNodes
    /\ UNCHANGED <<checkpoint, final_state, returned, decisions, exec_turns, gen_failed, runs, goal>>

UnitExecutor ==
    /\ node = "Executor"
    /\ UnitCalls < MaxUnitCalls
    /\ \E explanation \in Explanations :
          state' = Merge(state, executor_node(state, explanation))
    /\ exec_turns' = exec_turns + 1
    /\ gen_calls' = gen_calls + ExecutorGenCalls(state)
    /\ node' \in UnitNodes
    /\ UNCHANGED <<checkpoint, final_state, returned, decisions, gen_failed, runs, goal>>

NextUnit ==
    \/ UnitSupervisor
    \/ UnitPlanner
    \/ UnitExecutor

SpecUnit == InitUnit /\ [][NextUnit]_vars

---------------------------------------------------------------------------
(* planner_node on every generated text of at most MaxTextLen characters *)

AllTexts == SeqsUpTo(Alphabet, MaxTextLen)

InitParse ==
    /\ \E user_goal \in Goals : state = initial_state(user_goal) /\ goal = user_goal
    /\ node = "Planner"
    /\ checkpoint = <<>>
    /\ final_state = <<>>
    /\ returned = <<>>
    /\ decisions = 0
    /\ exec_turns = 0
    /\ gen_calls = 0
    /\ gen_failed = FALSE
    /\ runs = 0

ParsePlanner ==
    /\ node = "Planner"
    /\ \E raw_plan \in AllTexts : state' = Merge(state, planner_node(state, raw_plan))
    /\ gen_calls' = gen_calls + 1
    /\ node' = "Supervisor"
    /\ UNCHANGED <<checkpoint, final_state, returned, decisions, exec_turns, gen_failed, runs, goal>>

NextParse == ParsePlanner

SpecParse == InitParse /\ [][NextParse]_vars

---------------------------------------------------------------------------
(* Properties *)

(* C1: with a generation capability that always returns text, every run    *)
(* that has started reaches END, and it has then made at most              *)
(* len(plan) + 2 Supervisor decisions. Checked under SpecGenOk.            *)
C1_Terminates ==
    (node = "Supervisor" /\ decisions = 0)
        ~> (node = "END" /\ returned # <<>> /\ decisions <= Len(state.plan) + 2)

(* A run on text that parses to zero steps has ended after 4 + 2 decisions. *)
C1_Witness ==
    /\ node = "END"
    /\ state.plan = FallbackPlan
    /\ decisions = Len(FallbackPlan) + 2

(* C2: when a run has reached END, the state returned by run_once has a    *)
(* non-empty plan, current_step_index = len(plan) and                      *)
(* len(execution_log) = len(plan).                                         *)
C2_FinishComplete ==
    node = "END" =>
        /\ returned = <<state>>
        /\ returned[1].plan # <<>>
        /\ returned[1].current_step_index = Len(returned[1].plan)
        /\ Len(returned[1].execution_log) = Len(returned[1].plan)

C2_Witness ==
    /\ node = "END"
    /\ returned # <<>>
    /\ Len(returned[1].plan) = 3
    /\ Len(returned[1].execution_log) = 3

C4_Decision(s) ==
    LET empty == s.messages = <<>>
        tag == IF empty THEN NoneName ELSE s.messages[Len(s.messages)].name
        untagged == tag = NoneName \/ tag = ""
    IN CASE empty \/ untagged -> "Planner"
         [] ~empty /\ tag = "Planner" -> "Executor"
         [] ~empty /\ tag = "Executor" /\ s.current_step_index < Len(s.plan) -> "Executor"
         [] ~empty /\ tag = "Executor" /\ ~(s.current_step_index < Len(s.plan)) -> "FINISH"
         [] OTHER -> "FINISH"

(* C4: on every state, the next_step a Supervisor invocation writes is the *)
(* first-match function of the last author-tag and of                      *)
(* current_step_index < len(plan), and of nothing else. Checked under      *)
(* SpecUnit.                                                               *)
C4_RoutingFunction ==
    [][node = "Supervisor" => state'.next_step = C4_Decision(state)]_vars

(* The Supervisor has routed a state whose last tag it does not know. *)
C4_Witness ==
    /\ state.status = "supervising"
    /\ state.next_step = "FINISH"
    /\ LastName(state) = "Critic"

(* C5: 0 <= current_step_index <= len(plan) in every state of a run. *)
C5_IndexInRange ==
    /\ 0 <= state.current_step_index
    /\ state.current_step_index <= Len(state.plan)

C5_Witness ==
    /\ node = "Supervisor"
    /\ Len(state.plan) = 3
    /\ state.current_step_index = Len(state.plan)

(* C6: no Supervisor, Planner or Executor turn of a run decreases          *)
(* current_step_index.                                                     *)
C6_IndexMonotone ==
    [][runs' = runs => state'.current_step_index >= state.current_step_index]_vars

C6_Witness ==
    /\ runs = 1
    /\ exec_turns = 3
    /\ state.current_step_index = 3

(* C7: after N Executor turns of a run len(execution_log) = N =            *)
(* current_step_index, and an Executor turn adds exactly one entry at the  *)
(* end of execution_log, keeping the earlier entries and repeating none.   *)
C7_LogMatchesTurns ==
    [][ /\ Len(state'.execution_log) = exec_turns'
        /\ exec_turns' = state'.current_step_index
        /\ \A i, j \in 1..Len(state'.execution_log) :
              i # j => state'.execution_log[i] # state'.execution_log[j]
        /\ (node = "Executor" /\ node' = "Supervisor") =>
              /\ Len(state'.execution_log) = Len(state.execution_log) + 1
              /\ SubSeq(state'.execution_log, 1, Len(state.execution_log))
                    = state.execution_log ]_vars

C7_Witness ==
    /\ exec_turns = 3
    /\ Len(state.execution_log) = 3
    /\ state.current_step_index = 3

(* C8: when _parse_plan yields no step for the generated text, the         *)
(* Planner's update sets plan to the 4-step fallback and                   *)
(* current_step_index to 0; the plan after a Planner turn is never empty.  *)
(* Checked under SpecParse.                                                *)
C8_FallbackPlan ==
    node = "Supervisor" =>
        LET raw_plan == state.messages[Len(state.messages)].content
        IN /\ state.messages[Len(state.messages)].name = "Planner"
           /\ _parse_plan(raw_plan) = <<>> =>
                 /\ state.plan = FallbackPlan
                 /\ Len(state.plan) = 4
                 /\ state.current_step_index = 0
           /\ state.plan # <<>>

C8_Witness ==
    /\ node = "Supervisor"
    /\ state.messages[Len(state.messages)].content = <<Space, NL, Space>>
    /\ state.plan = FallbackPlan

(* C9: an Executor invocation on a state with an empty plan or with        *)
(* current_step_index >= len(plan) changes status to "nothing_to_execute"  *)
(* and nothing else, makes no generation call, and invoked again on the    *)
(* result gives the same state. Checked under SpecUnit.                    *)
C9_NoOp ==
    [][ (/\ node = "Executor"
         /\ (state.plan = <<>> \/ state.current_step_index >= Len(state.plan)))
        => /\ state' = [state EXCEPT !.status = "nothing_to_execute"]
           /\ gen_calls' = gen_calls
           /\ \A e \in Explanations :
                 Merge(state', executor_node(state', e)) = state' ]_vars

(* The guard has fired twice in a row on a two-step plan. *)
C9_Witness ==
    /\ state.status = "nothing_to_execute"
    /\ exec_turns = 2
    /\ Len(state.plan) = 2

(* C10: once an llm.invoke call of a run has raised, the run is over: the  *)
(* thread is at the failed position, run_once has returned no state, and   *)
(* no further step (no retry, no Supervisor decision, no agent             *)
(* invocation) happens in that run.                                        *)
C10_FailureIsFatal ==
    [][ /\ gen_failed' => (node' = "FAILED" /\ returned' = <<>>)
        /\ (gen_failed /\ runs' = runs) => UNCHANGED vars ]_vars

(* The second Executor call of a run has failed. *)
C10_Witness ==
    /\ gen_failed
    /\ node = "FAILED"
    /\ exec_turns = 1
    /\ gen_calls = 3

(* C11 as stated: at the first Supervisor decision of every run, messages  *)
(* holds exactly the goal message of that run, plan and execution_log are  *)
(* empty and current_step_index is 0.                                      *)
C11_FreshState ==
    (node = "Supervisor" /\ decisions = 0) =>
        /\ state.messages = <<HumanMessage(goal, NoneName)>>
        /\ state.user_goal = goal
        /\ state.plan = <<>>
        /\ state.execution_log = <<>>
        /\ state.current_step_index = 0

C13_DecisionSequence ==
    [][ /\ node = "Supervisor" =>
              state'.next_step =
                  IF decisions' = 1 THEN "Planner"
                  ELSE IF decisions' <= Len(state.plan) + 1 THEN "Executor"
                  ELSE "FINISH"
        /\ node' = "Planner" => (decisions' = 1 /\ gen_calls' = 0)
        /\ node' = "Executor" => gen_calls' >= 1
        /\ node' = "END" => decisions' = Len(state'.plan) + 2
        /\ (node = "END" /\ runs' = runs) => UNCHANGED vars ]_vars

C13_Witness ==
    /\ node = "END"
    /\ decisions = 5
    /\ Len(state.plan) = 3
    /\ state.next_step = "FINISH"

(* C14: every node invocation keeps the messages it found as a prefix of   *)
(* the messages it leaves; the Planner, and the Executor when it           *)
(* generates, append exactly one message tagged with their own name; the   *)
(* Supervisor, and the Executor when its guard fires, append none.         *)
(* Checked under SpecUnit.                                                 *)
C14_AppendOnly ==
    [][ LET old == state.messages
            new == state'.messages
            noop == state.plan = <<>> \/ state.current_step_index >= Len(state.plan)
            one(tag) == /\ Len(new) = Len(old) + 1
                        /\ new[Len(new)].name = tag
        IN /\ Len(new) >= Len(old)
           /\ SubSeq(new, 1, Len(old)) = old
           /\ node = "Supervisor" => new = old
           /\ node = "Planner" => one("Planner")
           /\ (node = "Executor" /\ noop) => new = old
           /\ (node = "Executor" /\ ~noop) => one("Executor") ]_vars

(* A Planner message followed by an Executor message, after one earlier    *)
(* message.                                                                *)
C14_Witness ==
    /\ Len(state.messages) = 3
    /\ state.messages[2].name = "Planner"
    /\ state.messages[3].name = "Executor"

(* C15: the Planner is invoked only while plan is empty, and every         *)
(* Supervisor and Executor turn of the run leaves plan as it was.          *)
C15_PlanFrozen ==
    [][ /\ node = "Planner" => state.plan = <<>>
        /\ (runs' = runs /\ node # "Planner") => state'.plan = state.plan ]_vars

C15_Witness ==
    /\ node = "END"
    /\ exec_turns = 3
    /\ Len(state.plan) = 3

(* C16 as stated: in every state of a run started with run(goal),          *)
(* user_goal equals goal.                                                  *)
C16_GoalImmutable ==
    runs >= 1 => state.user_goal = goal

(* The log entry for the step numbered n (counting from 1). *)
C17_Entry(n, step_text, explanation) ==
    <<"S", "t", "e", "p", " ">> \o IntToStr(n) \o <<":", " ">>
        \o step_text \o <<"\n">> \o explanation

(* C17: for every i < current_step_index, execution_log[i] is the entry    *)
(* for plan[i] with step number i + 1 (sequences here count from 1, so     *)
(* entry n is the one for the n-th step), and an Executor turn appends the *)
(* entry of the step at the index it found.                                *)
C17_LogFollowsPlan ==
    [][ /\ Len(state'.execution_log) = state'.current_step_index
        /\ \A n \in 1..state'.current_step_index :
              /\ n <= Len(state'.plan)
              /\ \E e \in Explanations :
                    state'.execution_log[n] = C17_Entry(n, state'.plan[n], e)
        /\ (node = "Executor" /\ node' = "Supervisor") =>
              /\ exec_turns' = state.current_step_index + 1
              /\ state'.execution_log[exec_turns'] =
                    C17_Entry(exec_turns', state.plan[exec_turns'],
                              state'.messages[Len(state'.messages)].content) ]_vars

C17_Witness ==
    /\ state.current_step_index = 3
    /\ Len(state.execution_log) = 3
    /\ state.plan[3] = <<"3", ".", "c">>
    /\ node = "Supervisor"

(* C18: in a run the last message is untagged or tagged Planner or         *)
(* Executor, so the Supervisor never takes its branch for an unrecognized  *)
(* tag, and every next_step it writes is Planner, Executor or FINISH.      *)
C18_KnownTags ==
    /\ LastName(state) \in {NoneName, "Planner", "Executor"}
    /\ decisions >= 1 => state.next_step \in {"Planner", "Executor", "FINISH"}
    /\ decisions = 0 => state.next_step = ""

C18_Witness ==
    /\ node = "END"
    /\ state.next_step = "FINISH"
    /\ LastName(state) = "Executor"
    /\ runs = 2

(* C19: in a run the Executor is only invoked on a non-empty plan with     *)
(* current_step_index < len(plan); status never becomes                    *)
(* "nothing_to_execute"; every Executor invocation makes exactly one       *)
(* generation call, and one that returns advances the index by exactly 1.  *)
C19_GuardNeverFires ==
    [][ /\ node' = "Executor" =>
              /\ state'.plan # <<>>
              /\ state'.current_step_index < Len(state'.plan)
        /\ state'.status # "nothing_to_execute"
        /\ node = "Executor" => gen_calls' = gen_calls + 1
        /\ (node = "Executor" /\ node' = "Supervisor") =>
              state'.current_step_index = state.current_step_index + 1 ]_vars

C19_Witness ==
    /\ node = "Executor"
    /\ exec_turns = 2
    /\ state.current_step_index = 2
    /\ Len(state.plan) = 3

====
